---- MODULE Spec2Model ----
(***************************************************************************)
(* Model of the Whatsminer API v3 client:                                  *)
(*   whatsminer_trans.py      WhatsminerTCP  (length-prefixed framing)     *)
(*   whatsminer_interface.py  WhatsminerAPIv3 (envelopes, token, padding)  *)
(*   whatsminer.py            main (the session flow)                      *)
(* Strings are sequences of Unicode code points, byte strings sequences of *)
(* 0..255.  JSON values are records [t, n, s, items].                      *)
(***************************************************************************)
EXTENDS Integers, Sequences, FiniteSets, TLC

VARIABLES
    salt,       \* WhatsminerAPIv3.salt
    now,        \* the clock int(time.time()) reads
    call,       \* the last API call: [op, cmd, param]
    payload,    \* the envelope dict the last call serialised (JNull: none)
    req_info,   \* the str the last call returned (<<>>: none)
    enc,        \* locals of the _encrypt_param call the last call made
    sock,       \* WhatsminerTCP.sock: "None", "unconnected", "connected", "closed"
    inbuf,      \* bytes the peer has written that the client has not read
    peer_eof,   \* the peer has closed its side of the connection
    sent,       \* bytes the last call wrote to the socket
    rx,         \* locals of the last _receive_response call
    outcome,    \* how the last call ended: [kind, exc, value]
    peer,       \* what the peer wrote in answer to the last send: [n, k]
    pc          \* position in main()

vars == <<salt, now, call, payload, req_info, enc, sock, inbuf, peer_eof, sent, rx, outcome, peer, pc>>

codec_vars == <<salt, now, payload, req_info, enc>>

tcp_vars == <<sock, inbuf, peer_eof, sent, rx>>

----------------------------------------------------------------------------
(* Sequences *)

Min(a, b) == IF a <= b THEN a ELSE b

Take(s, k) == SubSeq(s, 1, Min(k, Len(s)))

Drop(s, k) == SubSeq(s, Min(k, Len(s)) + 1, Len(s))

RECURSIVE Rep(_, _)
Rep(x, k) == IF k <= 0 THEN <<>> ELSE IF k = 1 THEN <<x>> ELSE Rep(x, k \div 2) \o Rep(x, k - (k \div 2))

\* The element of a one-element set: Only({F(x) : x \in {e}}) is F(e), with e
\* evaluated once
Only(S) == CHOOSE x \in S : TRUE

RECURSIVE SeqsUpTo(_, _)
SeqsUpTo(S, k) == IF k = 0 THEN {<<>>} ELSE SeqsUpTo(S, k - 1) \cup {Append(q, x) : q \in SeqsUpTo(S, k - 1), x \in S}

----------------------------------------------------------------------------
(* struct.pack("<I", n) and struct.unpack("<I", b) *)

HeaderLen == 4

MaxRspLen == 8192

pack_I(n) == <<n % 256, (n \div 256) % 256, (n \div 65536) % 256, (n \div 16777216) % 256>>

unpack_I(b) == b[1] + 256 * b[2] + 65536 * b[3] + 16777216 * b[4]

----------------------------------------------------------------------------
(* str.encode() and bytes.decode(): UTF-8 *)

utf8_char(c) ==
    IF c < 128 THEN <<c>>
    ELSE IF c < 2048 THEN <<192 + (c \div 64), 128 + (c % 64)>>
    ELSE IF c < 65536 THEN <<224 + (c \div 4096), 128 + ((c \div 64) % 64), 128 + (c % 64)>>
    ELSE <<240 + (c \div 262144), 128 + ((c \div 4096) % 64), 128 + ((c \div 64) % 64), 128 + (c % 64)>>

\* the encoding of s[lo..hi], halving the range
RECURSIVE encode_range(_, _, _)
encode_range(s, lo, hi) ==
    IF lo > hi THEN <<>>
    ELSE IF lo = hi THEN utf8_char(s[lo])
    ELSE encode_range(s, lo, (lo + hi) \div 2) \o encode_range(s, ((lo + hi) \div 2) + 1, hi)

encode(s) == Only({encode_range(x, 1, Len(x)) : x \in {s}})

IsCont(b, i, hi) == i <= hi /\ b[i] >= 128 /\ b[i] < 192

\* decode(b) is [ok, s]: ok = FALSE stands for UnicodeDecodeError
DecodeError == [ok |-> FALSE, s |-> <<>>]

\* b[i..hi], one character after the other
RECURSIVE decode_from(_, _, _, _)
decode_from(b, i, hi, acc) ==
    IF i > hi THEN [ok |-> TRUE, s |-> acc]
    ELSE IF b[i] < 128 THEN decode_from(b, i + 1, hi, Append(acc, b[i]))
    ELSE IF b[i] >= 194 /\ b[i] < 224 /\ IsCont(b, i + 1, hi)
        THEN decode_from(b, i + 2, hi, Append(acc, (b[i] - 192) * 64 + (b[i + 1] - 128)))
    ELSE IF b[i] >= 224 /\ b[i] < 240 /\ IsCont(b, i + 1, hi) /\ IsCont(b, i + 2, hi)
              /\ (b[i] - 224) * 4096 + (b[i + 1] - 128) * 64 >= 2048
              /\ ~(b[i] = 237 /\ b[i + 1] >= 160)
        THEN decode_from(b, i + 3, hi, Append(acc, (b[i] - 224) * 4096 + (b[i + 1] - 128) * 64 + (b[i + 2] - 128)))
    ELSE IF b[i] >= 240 /\ b[i] < 245 /\ IsCont(b, i + 1, hi) /\ IsCont(b, i + 2, hi) /\ IsCont(b, i + 3, hi)
              /\ (b[i] - 240) * 262144 + (b[i + 1] - 128) * 4096 >= 65536
              /\ (b[i] - 240) * 262144 + (b[i + 1] - 128) * 4096 < 1114112
        THEN decode_from(b, i + 4, hi, Append(acc, (b[i] - 240) * 262144 + (b[i + 1] - 128) * 4096 + (b[i + 2] - 128) * 64 + (b[i + 3] - 128)))
    ELSE DecodeError

\* the first byte from m on that starts a character; 0 after four continuation bytes
char_start(b, m, hi) ==
    IF ~IsCont(b, m, hi) THEN m
    ELSE IF ~IsCont(b, m + 1, hi) THEN m + 1
    ELSE IF ~IsCont(b, m + 2, hi) THEN m + 2
    ELSE IF ~IsCont(b, m + 3, hi) THEN m + 3
    ELSE 0

\* b[lo..hi], halving the range at a character's first byte
RECURSIVE decode_range(_, _, _)
decode_range(b, lo, hi) ==
    IF hi - lo < 8 THEN decode_from(b, lo, hi, <<>>)
    ELSE IF char_start(b, ((lo + hi) \div 2) + 1, hi) = 0 THEN DecodeError
    ELSE Only({IF l.ok /\ r.ok THEN [ok |-> TRUE, s |-> l.s \o r.s] ELSE DecodeError :
               l \in {decode_range(b, lo, char_start(b, ((lo + hi) \div 2) + 1, hi) - 1)},
               r \in {decode_range(b, char_start(b, ((lo + hi) \div 2) + 1, hi), hi)}})

decode(b) == Only({decode_range(x, 1, Len(x)) : x \in {b}})

----------------------------------------------------------------------------
(* JSON values: [t |-> "null" | "int" | "str" | "obj" | "list", n, s, items];  *)
(* items is a sequence of <<key, value>> pairs (the key is <<>> in a list),   *)
(* in insertion order, as a Python dict keeps it.                             *)

JNull == [t |-> "null", n |-> 0, s |-> <<>>, items |-> <<>>]

JInt(k) == [t |-> "int", n |-> k, s |-> <<>>, items |-> <<>>]

JStr(str) == [t |-> "str", n |-> 0, s |-> str, items |-> <<>>]

JObj(kvs) == [t |-> "obj", n |-> 0, s |-> <<>>, items |-> kvs]

RECURSIVE list_items(_, _)
list_items(vals, i) == IF i > Len(vals) THEN <<>> ELSE <<<<<<>>, vals[i]>>>> \o list_items(vals, i + 1)

JList(vals) == [t |-> "list", n |-> 0, s |-> <<>>, items |-> list_items(vals, 1)]

HasKey(v, key) == v.t = "obj" /\ \E i \in 1..Len(v.items) : v.items[i][1] = key

\* v[key] of a dict; evaluated only where HasKey(v, key)
Get(v, key) == v.items[CHOOSE i \in 1..Len(v.items) : v.items[i][1] = key /\ \A j \in (i + 1)..Len(v.items) : v.items[j][1] # key][2]

----------------------------------------------------------------------------
(* json.dumps (ensure_ascii=True, separators ", " and ": ") *)

RECURSIVE Decimal(_)
Decimal(n) == IF n < 10 THEN <<48 + n>> ELSE Decimal(n \div 10) \o <<48 + (n % 10)>>

HexDigit(d) == IF d < 10 THEN 48 + d ELSE 87 + d

hex4(n) == <<92, 117, HexDigit(n \div 4096), HexDigit((n \div 256) % 16), HexDigit((n \div 16) % 16), HexDigit(n % 16)>>

\* json.dumps(..., ensure_ascii=False): characters above 126 written as they are
escape_char_raw(c) ==
    IF c = 34 THEN <<92, 34>>
    ELSE IF c = 92 THEN <<92, 92>>
    ELSE IF c = 10 THEN <<92, 110>>
    ELSE IF c = 13 THEN <<92, 114>>
    ELSE IF c = 9 THEN <<92, 116>>
    ELSE IF c = 8 THEN <<92, 98>>
    ELSE IF c = 12 THEN <<92, 102>>
    ELSE IF c >= 32 THEN <<c>>
    ELSE hex4(c)

escape_char(c) ==
    IF c = 34 THEN <<92, 34>>
    ELSE IF c = 92 THEN <<92, 92>>
    ELSE IF c = 10 THEN <<92, 110>>
    ELSE IF c = 13 THEN <<92, 114>>
    ELSE IF c = 9 THEN <<92, 116>>
    ELSE IF c = 8 THEN <<92, 98>>
    ELSE IF c = 12 THEN <<92, 102>>
    ELSE IF c >= 32 /\ c <= 126 THEN <<c>>
    ELSE IF c < 65536 THEN hex4(c)
    ELSE hex4(55296 + ((c - 65536) \div 1024)) \o hex4(56320 + ((c - 65536) % 1024))

RECURSIVE escape_range(_, _, _)
escape_range(s, lo, hi) ==
    IF lo > hi THEN <<>>
    ELSE IF lo = hi THEN escape_char(s[lo])
    ELSE escape_range(s, lo, (lo + hi) \div 2) \o escape_range(s, ((lo + hi) \div 2) + 1, hi)

escape(s) == Only({escape_range(x, 1, Len(x)) : x \in {s}})

dumps_str(s) == <<34>> \o escape(s) \o <<34>>

RECURSIVE json_dumps(_)
RECURSIVE dumps_items(_, _, _)
dumps_items(items, i, isobj) ==
    IF i > Len(items) THEN <<>>
    ELSE (IF i > 1 THEN <<44, 32>> ELSE <<>>)
         \o (IF isobj THEN dumps_str(items[i][1]) \o <<58, 32>> ELSE <<>>)
         \o json_dumps(items[i][2])
         \o dumps_items(items, i + 1, isobj)

dumps_value(v) ==
    IF v.t = "null" THEN <<110, 117, 108, 108>>
    ELSE IF v.t = "int" THEN Decimal(v.n)
    ELSE IF v.t = "str" THEN dumps_str(v.s)
    ELSE IF v.t = "obj" THEN <<123>> \o dumps_items(v.items, 1, TRUE) \o <<125>>
    ELSE <<91>> \o dumps_items(v.items, 1, FALSE) \o <<93>>

json_dumps(v) == Only({dumps_value(x) : x \in {v}})

----------------------------------------------------------------------------
(* json.loads: null, non-negative integers, strings, objects and arrays.     *)
(* A result is [ok, val, pos]; ok = FALSE stands for json.JSONDecodeError.   *)

ParseFail == [ok |-> FALSE, val |-> JNull, pos |-> 0]

IsWs(c) == c \in {32, 9, 10, 13}

IsDigit(c) == c >= 48 /\ c <= 57

HexVal(c) == IF c >= 48 /\ c <= 57 THEN c - 48 ELSE IF c >= 97 /\ c <= 102 THEN c - 87 ELSE IF c >= 65 /\ c <= 70 THEN c - 55 ELSE -1

RECURSIVE skip_ws(_, _)
skip_ws(s, i) == IF i <= Len(s) /\ IsWs(s[i]) THEN skip_ws(s, i + 1) ELSE i

RECURSIVE scan_int(_, _, _)
scan_int(s, i, acc) == IF i <= Len(s) /\ IsDigit(s[i]) THEN scan_int(s, i + 1, 10 * acc + (s[i] - 48)) ELSE [ok |-> TRUE, val |-> JInt(acc), pos |-> i]

parse_int(s, i) == IF s[i] = 48 THEN [ok |-> TRUE, val |-> JInt(0), pos |-> i + 1] ELSE scan_int(s, i, 0)

HasHex4(s, i) == i + 3 <= Len(s) /\ \A k \in i..(i + 3) : HexVal(s[k]) >= 0

Hex4Val(s, i) == 4096 * HexVal(s[i]) + 256 * HexVal(s[i + 1]) + 16 * HexVal(s[i + 2]) + HexVal(s[i + 3])

\* s[i] is the character after the opening quote
RECURSIVE scan_str(_, _, _)
scan_str(s, i, acc) ==
    IF i > Len(s) THEN ParseFail
    ELSE IF s[i] = 34 THEN [ok |-> TRUE, val |-> JStr(acc), pos |-> i + 1]
    ELSE IF s[i] < 32 THEN ParseFail
    ELSE IF s[i] # 92 THEN scan_str(s, i + 1, Append(acc, s[i]))
    ELSE IF i + 1 > Len(s) THEN ParseFail
    ELSE IF s[i + 1] \in {34, 92, 47} THEN scan_str(s, i + 2, Append(acc, s[i + 1]))
    ELSE IF s[i + 1] = 110 THEN scan_str(s, i + 2, Append(acc, 10))
    ELSE IF s[i + 1] = 114 THEN scan_str(s, i + 2, Append(acc, 13))
    ELSE IF s[i + 1] = 116 THEN scan_str(s, i + 2, Append(acc, 9))
    ELSE IF s[i + 1] = 98 THEN scan_str(s, i + 2, Append(acc, 8))
    ELSE IF s[i + 1] = 102 THEN scan_str(s, i + 2, Append(acc, 12))
    ELSE IF s[i + 1] = 117 /\ HasHex4(s, i + 2)
        THEN LET hi == Hex4Val(s, i + 2)
             IN  IF hi >= 55296 /\ hi < 56320 /\ i + 7 <= Len(s) /\ s[i + 6] = 92 /\ s[i + 7] = 117
                    /\ HasHex4(s, i + 8) /\ Hex4Val(s, i + 8) >= 56320 /\ Hex4Val(s, i + 8) < 57344
                 THEN scan_str(s, i + 12, Append(acc, 65536 + (hi - 55296) * 1024 + (Hex4Val(s, i + 8) - 56320)))
                 ELSE scan_str(s, i + 6, Append(acc, hi))
    ELSE ParseFail

RECURSIVE parse_value(_, _)
RECURSIVE parse_members(_, _, _)
RECURSIVE parse_elements(_, _, _)
parse_members(s, i, acc) ==
    LET j == skip_ws(s, i)
    IN  IF j > Len(s) \/ s[j] # 34 THEN ParseFail
        ELSE LET k == scan_str(s, j + 1, <<>>)
                 c == skip_ws(s, k.pos)
             IN  IF ~k.ok \/ c > Len(s) \/ s[c] # 58 THEN ParseFail
                 ELSE LET v == parse_value(s, c + 1)
                          e == skip_ws(s, v.pos)
                      IN  IF ~v.ok \/ e > Len(s) THEN ParseFail
                          ELSE IF s[e] = 44 THEN parse_members(s, e + 1, Append(acc, <<k.val.s, v.val>>))
                          ELSE IF s[e] = 125 THEN [ok |-> TRUE, val |-> JObj(Append(acc, <<k.val.s, v.val>>)), pos |-> e + 1]
                          ELSE ParseFail

parse_elements(s, i, acc) ==
    LET v == parse_value(s, i)
        e == skip_ws(s, v.pos)
    IN  IF ~v.ok \/ e > Len(s) THEN ParseFail
        ELSE IF s[e] = 44 THEN parse_elements(s, e + 1, Append(acc, v.val))
        ELSE IF s[e] = 93 THEN [ok |-> TRUE, val |-> JList(Append(acc, v.val)), pos |-> e + 1]
        ELSE ParseFail

parse_value(s, i) ==
    LET j == skip_ws(s, i)
    IN  IF j > Len(s) THEN ParseFail
        ELSE IF s[j] = 123
            THEN LET k == skip_ws(s, j + 1)
                 IN  IF k <= Len(s) /\ s[k] = 125 THEN [ok |-> TRUE, val |-> JObj(<<>>), pos |-> k + 1]
                     ELSE parse_members(s, j + 1, <<>>)
        ELSE IF s[j] = 91
            THEN LET k == skip_ws(s, j + 1)
                 IN  IF k <= Len(s) /\ s[k] = 93 THEN [ok |-> TRUE, val |-> JList(<<>>), pos |-> k + 1]
                     ELSE parse_elements(s, j + 1, <<>>)
        ELSE IF s[j] = 34 THEN scan_str(s, j + 1, <<>>)
        ELSE IF IsDigit(s[j]) THEN parse_int(s, j)
        ELSE IF SubSeq(s, j, Min(j + 3, Len(s))) = <<110, 117, 108, 108>> THEN [ok |-> TRUE, val |-> JNull, pos |-> j + 4]
        ELSE ParseFail

json_loads(s) ==
    Only({Only({IF r.ok /\ skip_ws(x, r.pos) = Len(x) + 1 THEN [ok |-> TRUE, val |-> r.val] ELSE [ok |-> FALSE, val |-> JNull] :
                r \in {parse_value(x, 1)}}) : x \in {s}})

----------------------------------------------------------------------------
(* WhatsminerAPIv3: token, key and padding *)

Account == <<115, 117, 112, 101, 114>>

Password == <<115, 117, 112, 101, 114>>

BlockLen == 16

\* hashlib.sha256(b).digest(): 32 bytes, a fixed function of b.  The digest is
\* a stand-in mixing function; what is modelled is which bytes are hashed.
RECURSIVE mix(_, _, _, _)
mix(b, w, lo, hi) ==
    IF lo > hi THEN 0
    ELSE IF lo = hi THEN ((b[lo] + 1) * (((lo * w) % 251) + 1)) % 65521
    ELSE (mix(b, w, lo, (lo + hi) \div 2) + mix(b, w, ((lo + hi) \div 2) + 1, hi)) % 65521

sha256(b) ==
    Only({[i \in 1..32 |-> (m[1] * (2 * i + 1) + m[2] * (i + 7) + m[3] * i * i + Len(b)) % 256] :
          m \in {<<mix(b, 31, 1, Len(b)), mix(b, 17, 1, Len(b)), mix(b, 5, 1, Len(b))>>}})

B64Char(d) == IF d < 26 THEN 65 + d ELSE IF d < 52 THEN 71 + d ELSE IF d < 62 THEN d - 4 ELSE IF d = 62 THEN 43 ELSE 47

\* the 4 characters of the group of up to 3 bytes that starts at b[i]
b64_group(b, i) ==
    IF i = Len(b) THEN <<B64Char(b[i] \div 4), B64Char((b[i] % 4) * 16), 61, 61>>
    ELSE IF i + 1 = Len(b) THEN <<B64Char(b[i] \div 4), B64Char((b[i] % 4) * 16 + (b[i + 1] \div 16)), B64Char((b[i + 1] % 16) * 4), 61>>
    ELSE <<B64Char(b[i] \div 4), B64Char((b[i] % 4) * 16 + (b[i + 1] \div 16)), B64Char((b[i + 1] % 16) * 4 + (b[i + 2] \div 64)), B64Char(b[i + 2] % 64)>>

\* groups lo..hi, halving the range
RECURSIVE b64_range(_, _, _)
b64_range(b, lo, hi) ==
    IF lo > hi THEN <<>>
    ELSE IF lo = hi THEN b64_group(b, 3 * lo - 2)
    ELSE b64_range(b, lo, (lo + hi) \div 2) \o b64_range(b, ((lo + hi) \div 2) + 1, hi)

b64encode(b) == Only({b64_range(x, 1, (Len(x) + 2) \div 3) : x \in {b}})

\* AES.new(key, MODE_ECB).encrypt(data): block by block under the key, equal
\* blocks to equal blocks; the block function is a stand-in keyed substitution.
RECURSIVE ecb_range(_, _, _, _, _)
ecb_range(key, data, sign, lo, hi) ==
    IF lo > hi THEN <<>>
    ELSE IF lo = hi THEN <<(data[lo] + 512 + sign * (key[((lo - 1) % BlockLen) + 1] + key[((lo - 1) % BlockLen) + 17])) % 256>>
    ELSE ecb_range(key, data, sign, lo, (lo + hi) \div 2) \o ecb_range(key, data, sign, ((lo + hi) \div 2) + 1, hi)

aes_ecb_encrypt(key, data) == Only({ecb_range(k, d, 1, 1, Len(d)) : k \in {key}, d \in {data}})

\* f"{command}{self.password}{self.salt}{ts}"
src_buff(command, ts) == command \o Password \o salt \o Decimal(ts)

aes_key(command, ts) == sha256(encode(src_buff(command, ts)))

generate_token(command, ts) == Take(b64encode(aes_key(command, ts)), 8)

pad_len_of(param) == BlockLen - (Len(param) % BlockLen)

\* locals of _encrypt_param: [param, pad_len, padded, aligned, encrypted_bytes, out];
\* padded is padded_param.encode(); aligned = FALSE is the ValueError cipher.encrypt
\* raises on data that is not block-aligned
encrypt_param(param, command, ts) ==
    LET pad_len == pad_len_of(param)
        padded_param == param \o Rep(pad_len, pad_len)
    IN  Only({Only({[param |-> param, pad_len |-> pad_len, padded |-> data, aligned |-> Len(data) % BlockLen = 0,
                     encrypted_bytes |-> encrypted_bytes, out |-> b64encode(encrypted_bytes)] :
                    encrypted_bytes \in {IF Len(data) % BlockLen = 0 THEN aes_ecb_encrypt(aes_key(command, ts), data) ELSE <<>>}}) :
              data \in {encode(padded_param)}})

----------------------------------------------------------------------------
(* WhatsminerAPIv3: the envelopes *)

K_cmd == <<99, 109, 100>>

K_param == <<112, 97, 114, 97, 109>>

K_ts == <<116, 115>>

K_token == <<116, 111, 107, 101, 110>>

K_account == <<97, 99, 99, 111, 117, 110, 116>>

K_new == <<110, 101, 119>>

K_old == <<111, 108, 100>>

K_pool == <<112, 111, 111, 108>>

K_worker == <<119, 111, 114, 107, 101, 114>>

K_passwd == <<112, 97, 115, 115, 119, 100>>

CmdDeviceInfo == <<103, 101, 116, 46, 100, 101, 118, 105, 99, 101, 46, 105, 110, 102, 111>>

CmdMinerService == <<115, 101, 116, 46, 109, 105, 110, 101, 114, 46, 115, 101, 114, 118, 105, 99, 101>>

CmdMinerPools == <<115, 101, 116, 46, 109, 105, 110, 101, 114, 46, 112, 111, 111, 108, 115>>

CmdChangePasswd == <<115, 101, 116, 46, 117, 115, 101, 114, 46, 99, 104, 97, 110, 103, 101, 95, 112, 97, 115, 115, 119, 100>>

Restart == <<114, 101, 115, 116, 97, 114, 116>>

\* A builder's result is [env, enc]: the dict it serialises and the locals of
\* the _encrypt_param call it makes (NoEnc when it makes none)
NoEnc == [param |-> <<>>, pad_len |-> 0, padded |-> <<>>, aligned |-> TRUE, encrypted_bytes |-> <<>>, out |-> <<>>]

get_request_cmds(cmd, param) == [env |-> JObj(<<<<K_cmd, JStr(cmd)>>, <<K_param, param>>>>), enc |-> NoEnc]

set_request_cmds(cmd, param, ts) ==
    [env |-> JObj(<<<<K_cmd, JStr(cmd)>>, <<K_param, param>>, <<K_ts, JInt(ts)>>,
                    <<K_token, JStr(generate_token(cmd, ts))>>, <<K_account, JStr(Account)>>>>),
     enc |-> NoEnc]

pools_param_data(p1, p2, p3) ==
    JList(<<JObj(<<<<K_pool, JStr(p1[1])>>, <<K_worker, JStr(p1[2])>>, <<K_passwd, JStr(p1[3])>>>>),
            JObj(<<<<K_pool, JStr(p2[1])>>, <<K_worker, JStr(p2[2])>>, <<K_passwd, JStr(p2[3])>>>>),
            JObj(<<<<K_pool, JStr(p3[1])>>, <<K_worker, JStr(p3[2])>>, <<K_passwd, JStr(p3[3])>>>>)>>)

set_miner_pools(param_data, ts) ==
    Only({[env |-> JObj(<<<<K_cmd, JStr(CmdMinerPools)>>, <<K_ts, JInt(ts)>>,
                          <<K_token, JStr(generate_token(CmdMinerPools, ts))>>, <<K_account, JStr(Account)>>,
                          <<K_param, JStr(e.out)>>>>),
           enc |-> e] : e \in {encrypt_param(json_dumps(param_data), CmdMinerPools, ts)}})

passwd_param_data(username, old_passwd, new_passwd) ==
    JObj(<<<<K_account, JStr(username)>>, <<K_new, JStr(new_passwd)>>, <<K_old, JStr(old_passwd)>>>>)

\* the clock read a second time for the key of the parameter
set_user_passwd_second_clock(param_data, ts) ==
    Only({[env |-> JObj(<<<<K_cmd, JStr(CmdChangePasswd)>>, <<K_ts, JInt(ts)>>,
                          <<K_token, JStr(generate_token(CmdChangePasswd, ts))>>, <<K_account, JStr(Account)>>,
                          <<K_param, JStr(e.out)>>>>),
           enc |-> e] : e \in {encrypt_param(json_dumps(param_data), CmdChangePasswd, ts + 1)}})

set_user_passwd(param_data, ts) ==
    Only({[env |-> JObj(<<<<K_cmd, JStr(CmdChangePasswd)>>, <<K_ts, JInt(ts)>>,
                          <<K_token, JStr(generate_token(CmdChangePasswd, ts))>>, <<K_account, JStr(Account)>>,
                          <<K_param, JStr(e.out)>>>>),
           enc |-> e] : e \in {encrypt_param(json_dumps(param_data), CmdChangePasswd, ts)}})

----------------------------------------------------------------------------
(* WhatsminerTCP *)

\* Bounds of the peer's writes
MaxBody == 1

MaxPending == HeaderLen + MaxBody

TextBytes == {32, 49}

PeerTexts == SeqsUpTo(TextBytes, MaxBody)

\* What the peer writes after a length header, never more than the header declares:
\* text, or text that is itself a frame
PeerBodies == PeerTexts \cup {pack_I(n) \o t : n \in 1..MaxBody, t \in PeerTexts}

Chunks == {1, HeaderLen}

DeclaredLens == (0..MaxBody) \cup {MaxRspLen, MaxRspLen + 1}

Ok(v) == [kind |-> "ok", exc |-> "", value |-> v]

Raise(e) == [kind |-> "raise", exc |-> e, value |-> JNull]

NoRx == [hdr |-> 0, rsp_len |-> -1, nbody |-> 0, consumed |-> 0, stale |-> 0]

NoPeer == [n |-> -1, k |-> 0]

\* len(sock.recv(bufsize)) when `chunk` bytes at most have arrived
recv_n(stream, bufsize, chunk) == Min(Min(bufsize, chunk), Len(stream))

\* the ceiling test off by one: a declared length of exactly MaxRspLen rejected
oversized_at_ceiling(rsp_len) == rsp_len >= MaxRspLen

oversized(rsp_len) == rsp_len > MaxRspLen

\* while len(buffer) < rsp_len: more_data = recv(rsp_len - len(buffer)); if not more_data: break
RECURSIVE recv_loop(_, _, _, _, _)
recv_loop(buffer, stream, rsp_len, eof, chunk) ==
    IF Len(buffer) >= rsp_len THEN [buffer |-> buffer, rest |-> stream, blocked |-> FALSE]
    ELSE LET m == recv_n(stream, rsp_len - Len(buffer), chunk)
         IN  IF m = 0 THEN [buffer |-> buffer, rest |-> stream, blocked |-> ~eof]
             ELSE recv_loop(buffer \o Take(stream, m), Drop(stream, m), rsp_len, eof, chunk)

\* [ret, rest, hdr, rsp_len, buffer, blocked]: ret is "None" or "str"
receive_response(stream, eof, chunk) ==
    LET m == recv_n(stream, HeaderLen, chunk)
        length_data == Take(stream, m)
        after == Drop(stream, m)
    IN  IF m = 0 /\ ~eof
        THEN [ret |-> "None", rest |-> stream, hdr |-> 0, rsp_len |-> -1, buffer |-> <<>>, blocked |-> TRUE]
        ELSE IF Len(length_data) < HeaderLen
        THEN [ret |-> "None", rest |-> after, hdr |-> m, rsp_len |-> -1, buffer |-> <<>>, blocked |-> FALSE]
        ELSE IF oversized(unpack_I(length_data))
        THEN [ret |-> "None", rest |-> after, hdr |-> m, rsp_len |-> unpack_I(length_data), buffer |-> <<>>, blocked |-> FALSE]
        ELSE Only({[ret |-> "str", rest |-> l.rest, hdr |-> m, rsp_len |-> unpack_I(length_data), buffer |-> l.buffer, blocked |-> l.blocked] :
                   l \in {recv_loop(<<>>, after, unpack_I(length_data), eof, chunk)}})

\* response = self._receive_response(); if response is None: raise; return json.loads(response)
send_result(r) ==
    IF r.ret = "None" THEN Raise("RuntimeError: Failed to receive response")
    ELSE Only({IF ~response.ok THEN Raise("UnicodeDecodeError")
               ELSE Only({IF ~v.ok THEN Raise("JSONDecodeError") ELSE Ok(v.val) : v \in {json_loads(response.s)}}) :
               response \in {decode(r.buffer)}})

\* The exchange on a connected socket: the peer answers with pack_I(n) \o body
exchange(message, message_length, n, body, closes, chunk) ==
    \E stream \in {inbuf \o pack_I(n) \o body} : \E r \in {receive_response(stream, closes, chunk)} :
    LET used == Len(stream) - Len(r.rest)
    IN  /\ ~r.blocked
        /\ sent' = pack_I(message_length) \o encode(message)
        /\ inbuf' = r.rest
        /\ peer_eof' = closes
        /\ peer' = [n |-> n, k |-> Len(body)]
        /\ rx' = [hdr |-> r.hdr, rsp_len |-> r.rsp_len, nbody |-> Len(r.buffer), consumed |-> used, stale |-> Min(used, Len(inbuf))]
        /\ outcome' = send_result(r)
        /\ sock' = sock

\* send raises before anything is written or read
not_sent(e) ==
    /\ outcome' = Raise(e)
    /\ peer' = NoPeer
    /\ sent' = <<>>
    /\ rx' = NoRx
    /\ UNCHANGED <<sock, inbuf, peer_eof>>

\* The peer has closed: sendall raises, or the bytes go nowhere and recv meets the end of the stream
exchange_closed(message, message_length, chunk) ==
    \/ not_sent("OSError: sendall")
    \/ \E r \in {receive_response(inbuf, TRUE, chunk)} :
       LET used == Len(inbuf) - Len(r.rest)
       IN  /\ sent' = pack_I(message_length) \o encode(message)
           /\ inbuf' = r.rest
           /\ peer' = NoPeer
           /\ rx' = [hdr |-> r.hdr, rsp_len |-> r.rsp_len, nbody |-> Len(r.buffer), consumed |-> used, stale |-> used]
           /\ outcome' = send_result(r)
           /\ UNCHANGED <<sock, peer_eof>>

send(message, message_length, n, body, closes, chunk) ==
    IF sock = "None"
    THEN not_sent("RuntimeError: Not connected")
    ELSE IF sock # "connected"
    THEN not_sent("OSError: sendall")
    ELSE IF peer_eof THEN exchange_closed(message, message_length, chunk)
    ELSE exchange(message, message_length, n, body, closes, chunk)

connect(accepted) ==
    /\ sock' = IF accepted THEN "connected" ELSE "unconnected"
    /\ inbuf' = <<>>
    /\ peer_eof' = FALSE
    /\ outcome' = IF accepted THEN Ok(JNull) ELSE Raise("OSError: connect")
    /\ peer' = NoPeer
    /\ sent' = <<>>
    /\ rx' = NoRx

\* socket.shutdown(SHUT_RDWR) raises OSError on a socket that is not connected or already closed
shutdown_raises(reset) == sock \in {"unconnected", "closed"} \/ (sock = "connected" /\ peer_eof /\ reset)

close(reset) ==
    /\ peer' = NoPeer
    /\ sent' = <<>>
    /\ rx' = NoRx
    /\ IF sock = "None" THEN outcome' = Ok(JNull) /\ UNCHANGED <<sock, inbuf, peer_eof>>
       ELSE IF shutdown_raises(reset) THEN outcome' = Raise("OSError: shutdown") /\ UNCHANGED <<sock, inbuf, peer_eof>>
       ELSE /\ outcome' = Ok(JNull)
            /\ sock' = "closed"
            /\ inbuf' = <<>>
            /\ peer_eof' = FALSE

----------------------------------------------------------------------------
(* The objects after construction *)

NoCall == [op |-> "init", cmd |-> <<>>, param |-> JNull]

StartTime == 9

Init ==
    /\ salt = <<>>
    /\ now = StartTime
    /\ call = NoCall
    /\ payload = JNull
    /\ req_info = <<>>
    /\ enc = NoEnc
    /\ sock = "None"
    /\ inbuf = <<>>
    /\ peer_eof = FALSE
    /\ sent = <<>>
    /\ rx = NoRx
    /\ outcome = [kind |-> "none", exc |-> "", value |-> JNull]
    /\ peer = NoPeer
    /\ pc = "start"

----------------------------------------------------------------------------
(* A caller of WhatsminerTCP alone: connect, send and close in any order *)

Ping == <<49>>

TcpConnect == \E accepted \in BOOLEAN : connect(accepted) /\ call' = [NoCall EXCEPT !.op = "connect"] /\ UNCHANGED <<codec_vars, pc>>

TcpSend ==
    \E n \in DeclaredLens, body \in PeerBodies, closes \in BOOLEAN, chunk \in Chunks :
        /\ Len(body) <= n
        /\ send(Ping, Len(Ping), n, body, closes, chunk)
        /\ Len(inbuf') <= MaxPending
        /\ call' = [NoCall EXCEPT !.op = "send"]
        /\ UNCHANGED <<codec_vars, pc>>

TcpClose == \E reset \in BOOLEAN : close(reset) /\ call' = [NoCall EXCEPT !.op = "close"] /\ UNCHANGED <<codec_vars, pc>>

NextFramer == TcpConnect \/ TcpSend \/ TcpClose

SpecFramer == Init /\ [][NextFramer]_vars

----------------------------------------------------------------------------
(* A caller of WhatsminerAPIv3 alone: set_salt and the builders in any order *)

MaxTick == 2

MaxName == 10

MaxPlain == 17

Times == StartTime..(StartTime + MaxTick)

Salts == {<<>>, <<97>>, <<98, 49>>}

Params == {JNull, JStr(Restart), JStr(<<233>>), JStr(<<8364, 34>>)}

UserNames == {Rep(117, k) : k \in 0..MaxName}

Passwds == {<<110>>, <<233>>}

PoolEntries == {<<<<>>, <<>>, <<>>>>, <<<<112, 46, 233>>, <<119>>, <<120>>>>}

Plaintexts == {Rep(97, k) \o tail : k \in 0..MaxPlain, tail \in {<<>>, <<233>>}}

\* ts = int(time.time())
time_time(ts) == ts \in Times /\ ts >= now /\ now' = ts

set_salt(s) == salt' = s

\* what a builder leaves behind: the envelope and the str it returns
built(op, cmd, param, result) ==
    \E b \in {result} :
        /\ call' = [op |-> op, cmd |-> cmd, param |-> param]
        /\ enc' = b.enc
        /\ payload' = IF b.enc.aligned THEN b.env ELSE JNull
        /\ req_info' = IF b.enc.aligned THEN json_dumps(b.env) ELSE <<>>

api_get_request_cmds(cmd, param) ==
    /\ built("get_request_cmds", cmd, param, get_request_cmds(cmd, param))
    /\ UNCHANGED <<salt, now>>

\* a builder that spends the salt: it is cleared once a token is made from it
api_set_request_cmds_spends_salt(cmd, param, ts) ==
    /\ time_time(ts)
    /\ built("set_request_cmds", cmd, param, set_request_cmds(cmd, param, ts))
    /\ set_salt(<<>>)

api_set_request_cmds(cmd, param, ts) ==
    /\ time_time(ts)
    /\ built("set_request_cmds", cmd, param, set_request_cmds(cmd, param, ts))
    /\ UNCHANGED salt

api_set_miner_pools(param_data, ts) ==
    /\ time_time(ts)
    /\ built("set_miner_pools", CmdMinerPools, param_data, set_miner_pools(param_data, ts))
    /\ UNCHANGED salt

api_set_user_passwd(param_data, ts) ==
    /\ time_time(ts)
    /\ built("set_user_passwd", CmdChangePasswd, param_data, set_user_passwd(param_data, ts))
    /\ UNCHANGED salt

Returned == IF enc'.aligned THEN Ok(JStr(req_info')) ELSE Raise("ValueError")

ApiSetSalt ==
    \E s \in Salts :
        /\ set_salt(s)
        /\ call' = [op |-> "set_salt", cmd |-> <<>>, param |-> JStr(s)]
        /\ outcome' = Ok(JNull)
        /\ payload' = JNull
        /\ req_info' = <<>>
        /\ enc' = NoEnc
        /\ UNCHANGED <<now, tcp_vars, peer, pc>>

ApiGetRequest ==
    \E param \in Params :
        /\ api_get_request_cmds(CmdDeviceInfo, param)
        /\ outcome' = Returned
        /\ UNCHANGED <<tcp_vars, peer, pc>>

ApiSetRequest ==
    \E param \in Params, ts \in Times :
        /\ api_set_request_cmds(CmdMinerService, param, ts)
        /\ outcome' = Returned
        /\ UNCHANGED <<tcp_vars, peer, pc>>

ApiSetMinerPools ==
    \E p1 \in PoolEntries, ts \in Times :
        /\ api_set_miner_pools(pools_param_data(p1, <<<<>>, <<>>, <<>>>>, <<<<>>, <<>>, <<>>>>), ts)
        /\ outcome' = Returned
        /\ UNCHANGED <<tcp_vars, peer, pc>>

ApiSetUserPasswd ==
    \E username \in UserNames, new_passwd \in Passwds, ts \in Times :
        /\ api_set_user_passwd(passwd_param_data(username, <<111>>, new_passwd), ts)
        /\ outcome' = Returned
        /\ UNCHANGED <<tcp_vars, peer, pc>>

ApiEncryptParam ==
    \E param \in Plaintexts :
        /\ enc' = encrypt_param(param, CmdChangePasswd, now)
        /\ call' = [op |-> "encrypt_param", cmd |-> CmdChangePasswd, param |-> JStr(param)]
        /\ outcome' = IF enc'.aligned THEN Ok(JStr(enc'.out)) ELSE Raise("ValueError")
        /\ payload' = JNull
        /\ req_info' = <<>>
        /\ UNCHANGED <<salt, now, tcp_vars, peer, pc>>

NextCodec == ApiSetSalt \/ ApiGetRequest \/ ApiSetRequest \/ ApiSetMinerPools \/ ApiSetUserPasswd \/ ApiEncryptParam

SpecCodec == Init /\ [][NextCodec]_vars

----------------------------------------------------------------------------
(* A caller of both, as main does: req_info = api.<builder>(...);           *)
(* tcp.send(req_info, len(req_info))                                        *)

ClientConnect == \E accepted \in BOOLEAN : connect(accepted) /\ call' = [NoCall EXCEPT !.op = "connect"] /\ UNCHANGED <<codec_vars, pc>>

ClientPlain ==
    \E param \in Params :
        /\ sock = "connected"
        /\ api_get_request_cmds(CmdDeviceInfo, param)
        /\ send(req_info', Len(req_info'), 1, <<49>>, FALSE, HeaderLen)
        /\ UNCHANGED pc

ClientAuth ==
    \E param \in Params, ts \in Times :
        /\ sock = "connected"
        /\ api_set_request_cmds(CmdMinerService, param, ts)
        /\ send(req_info', Len(req_info'), 1, <<49>>, FALSE, HeaderLen)
        /\ UNCHANGED pc

ClientEncrypted ==
    \E username \in UserNames, new_passwd \in Passwds, ts \in Times :
        /\ sock = "connected"
        /\ api_set_user_passwd(passwd_param_data(username, <<111>>, new_passwd), ts)
        /\ send(req_info', Len(req_info'), 1, <<49>>, FALSE, HeaderLen)
        /\ UNCHANGED pc

NextClient == ClientConnect \/ ClientPlain \/ ClientAuth \/ ClientEncrypted

SpecClient == Init /\ [][NextClient]_vars

----------------------------------------------------------------------------
(* main() of whatsminer.py *)

K_code == <<99, 111, 100, 101>>

K_msg == <<109, 115, 103>>

K_salt == <<115, 97, 108, 116>>

DeviceSalts == {<<>>, <<97, 98>>}

DeviceResponses ==
    {JObj(<<<<K_code, JInt(0)>>, <<K_msg, JObj(<<<<K_salt, JStr(s)>>>>)>>>>) : s \in DeviceSalts}
    \cup {JObj(<<<<K_code, JInt(0)>>, <<K_msg, JObj(<<>>)>>>>),
          JObj(<<<<K_code, JInt(0)>>, <<K_msg, JStr(<<111, 107>>)>>>>),
          JObj(<<<<K_code, JInt(1)>>, <<K_msg, JStr(<<101, 114, 114>>)>>>>),
          JInt(1)}

DeviceBodies == {encode(json_dumps(r)) : r \in DeviceResponses}

DeviceLens(body) == {Len(body), Len(body) + 1, MaxRspLen + 1}

MainConnect ==
    /\ pc = "start"
    /\ \E accepted \in BOOLEAN : connect(accepted) /\ pc' = IF accepted THEN "info" ELSE "finally"
    /\ call' = [NoCall EXCEPT !.op = "connect"]
    /\ UNCHANGED codec_vars

\* req_info = get_request_cmds("get.device.info"); rsp_info = send(req_info, len(req_info))
MainGetInfo ==
    /\ pc = "info"
    /\ api_get_request_cmds(CmdDeviceInfo, JNull)
    /\ \E body \in DeviceBodies, closes \in BOOLEAN, chunk \in Chunks : \E n \in DeviceLens(body) :
           send(req_info', Len(req_info'), n, body, closes, chunk)
    /\ pc' = IF outcome'.kind = "raise" THEN "finally" ELSE "check"

\* if rsp_info["code"] == 0: set_salt(rsp_info["msg"]["salt"]) else: return
MainCheck ==
    /\ pc = "check"
    /\ call' = [NoCall EXCEPT !.op = "check"]
    /\ IF ~HasKey(outcome.value, K_code)
       THEN outcome' = Raise("KeyError") /\ pc' = "finally" /\ UNCHANGED salt
       ELSE IF Get(outcome.value, K_code) # JInt(0)
       THEN outcome' = outcome /\ pc' = "finally" /\ UNCHANGED salt
       ELSE IF ~(HasKey(outcome.value, K_msg) /\ HasKey(Get(outcome.value, K_msg), K_salt))
       THEN outcome' = Raise("KeyError") /\ pc' = "finally" /\ UNCHANGED salt
       ELSE outcome' = outcome /\ pc' = "restart" /\ set_salt(Get(Get(outcome.value, K_msg), K_salt).s)
    /\ UNCHANGED <<now, payload, req_info, enc, tcp_vars, peer>>

\* req_info = set_miner_service("restart"); rsp_info = send(req_info, len(req_info))
MainRestart ==
    /\ pc = "restart"
    /\ \E ts \in Times : api_set_request_cmds(CmdMinerService, JStr(Restart), ts)
    /\ \E body \in DeviceBodies, closes \in BOOLEAN, chunk \in Chunks : \E n \in DeviceLens(body) :
           send(req_info', Len(req_info'), n, body, closes, chunk)
    /\ pc' = "finally"

\* finally: whatsminer_tcp.close()
MainFinally ==
    /\ pc = "finally"
    /\ \E reset \in BOOLEAN : close(reset)
    /\ pc' = IF outcome'.kind = "raise" THEN "raised" ELSE "returned"
    /\ call' = [NoCall EXCEPT !.op = "close"]
    /\ UNCHANGED codec_vars

NextMain == MainConnect \/ MainGetInfo \/ MainCheck \/ MainRestart \/ MainFinally

SpecMain == Init /\ [][NextMain]_vars

----------------------------------------------------------------------------
(* Properties of WhatsminerTCP, under SpecFramer *)

\* the last call was a send that the peer answered with a header declaring peer.n
\* and peer.k bytes after it, read from a stream that held nothing older
Answered == call.op = "send" /\ peer.n >= 0 /\ rx.stale = 0

FailedToReceive == outcome = Raise("RuntimeError: Failed to receive response")

\* C1: when the peer declares n <= 8192 body bytes and closes after delivering
\* k < n of them, send fails with an error and returns no parsed response.
C1_TruncatedBodyFails ==
    (Answered /\ rx.hdr = HeaderLen /\ peer.n <= MaxRspLen /\ peer.k < peer.n /\ peer_eof) => outcome.kind = "raise"

\* C2: a header declaring more than 8192 is rejected with an error before any
\* byte of the body is read; a header declaring 8192 or less is not rejected
\* by the length check.
C2_CeilingRejectsBeforeBody ==
    (call.op = "send" /\ rx.hdr = HeaderLen) =>
        /\ rx.rsp_len > MaxRspLen => (FailedToReceive /\ rx.consumed = HeaderLen /\ rx.nbody = 0)
        /\ rx.rsp_len <= MaxRspLen => ~FailedToReceive
        /\ (Answered /\ rx.rsp_len > MaxRspLen) => Len(inbuf) = peer.k

\* C2 happens: a declared 8193 was rejected with the body it announced left unread
C2_Witness_Rejected ==
    Answered /\ rx.rsp_len = MaxRspLen + 1 /\ FailedToReceive /\ peer.k > 0 /\ Len(inbuf) = peer.k

\* C4: close never raises, whatever calls came before it.
C4_CloseNeverRaises == call.op = "close" => outcome.kind # "raise"

\* C9: when the peer delivers a complete frame (4-byte header, n <= 8192 body
\* bytes), receive reads the 4 header bytes and exactly the n body bytes,
\* however the stream splits them across reads, and nothing beyond them.
C9_CompleteFrameRead ==
    (Answered /\ peer.n <= MaxRspLen /\ peer.k >= peer.n) =>
        (rx.hdr = HeaderLen /\ rx.rsp_len = peer.n /\ rx.nbody = peer.n /\ rx.consumed = HeaderLen + peer.n)

\* C10: a send that returns a response returns the reply to that request: none
\* of the bytes it parsed were left over from the reply to an earlier request.
C10_ReplyToSameRequest == (call.op = "send" /\ outcome.kind = "ok") => rx.stale = 0

----------------------------------------------------------------------------
(* Properties of WhatsminerAPIv3, under SpecCodec *)

Keys(v) == {v.items[i][1] : i \in 1..Len(v.items)}

Encrypting == call.op \in {"encrypt_param", "set_miner_pools", "set_user_passwd"}

\* C5: for a plaintext of byte length L, _encrypt_param appends p = 16 - (L mod 16)
\* bytes of value p, 1 <= p <= 16; the cipher is given L + p bytes, a multiple
\* of 16, and stripping as many bytes as the last byte says gives the plaintext back.
C5_PaddingOverBytes ==
    Encrypting =>
        LET plain == encode(enc.param)
            L == Len(plain)
            p == BlockLen - (L % BlockLen)
        IN  /\ enc.pad_len = p
            /\ p >= 1 /\ p <= BlockLen
            /\ Len(enc.padded) = L + p
            /\ Len(enc.padded) % BlockLen = 0
            /\ \A i \in (L + 1)..Len(enc.padded) : enc.padded[i] = p
            /\ Take(enc.padded, Len(enc.padded) - enc.padded[Len(enc.padded)]) = plain

AuthKeys == {K_cmd, K_ts, K_token, K_account, K_param}

\* what the holder of the key computes from the ciphertext: the inverse of
\* aes_ecb_encrypt under the same key
aes_ecb_decrypt(key, data) == Only({ecb_range(k, d, -1, 1, Len(d)) : k \in {key}, d \in {data}})

\* C6: in every envelope a builder makes, param is the caller's value as given
\* (get_request_cmds, set_request_cmds) or the base64 ciphertext alone
\* (set_miner_pools, set_user_passwd); the ciphertext decrypts, under the key of
\* the ts the envelope carries, to the padded plaintext, and the token is the
\* token of that same ts.
C6_ParamPlainOrCiphertext ==
    /\ call.op = "get_request_cmds" =>
           /\ Keys(payload) = {K_cmd, K_param} /\ Len(payload.items) = 2
           /\ Get(payload, K_cmd) = JStr(call.cmd)
           /\ Get(payload, K_param) = call.param
    /\ call.op = "set_request_cmds" =>
           /\ Keys(payload) = AuthKeys /\ Len(payload.items) = 5
           /\ Get(payload, K_cmd) = JStr(call.cmd)
           /\ Get(payload, K_param) = call.param
           /\ Get(payload, K_account) = JStr(Account)
           /\ Get(payload, K_token) = JStr(generate_token(call.cmd, Get(payload, K_ts).n))
    /\ (call.op \in {"set_miner_pools", "set_user_passwd"} /\ outcome.kind = "ok") =>
           /\ Keys(payload) = AuthKeys /\ Len(payload.items) = 5
           /\ Get(payload, K_cmd) = JStr(call.cmd)
           /\ Get(payload, K_account) = JStr(Account)
           /\ Get(payload, K_token) = JStr(generate_token(call.cmd, Get(payload, K_ts).n))
           /\ Get(payload, K_param) = JStr(b64encode(enc.encrypted_bytes))
           /\ Get(payload, K_param) # call.param
           /\ enc.param = json_dumps(call.param)
           /\ aes_ecb_decrypt(aes_key(call.cmd, Get(payload, K_ts).n), enc.encrypted_bytes)
                  = encode(enc.param) \o Rep(enc.pad_len, enc.pad_len)

\* C6 happens: an encrypted envelope built under a salt that was set, at a later tick
C6_Witness_Encrypted ==
    /\ call.op = "set_user_passwd" /\ outcome.kind = "ok" /\ salt # <<>>
    /\ Get(payload, K_ts).n > StartTime
    /\ Len(enc.encrypted_bytes) > BlockLen

----------------------------------------------------------------------------
(* Properties of a caller of both, under SpecClient *)

\* C3: the 4-byte header send writes is the number of payload bytes written
\* after it, and those bytes are the payload: a peer that reads the header and
\* then that many bytes has the payload the builder returned and is at the end
\* of what was written.
C3_HeaderIsPayloadByteLength ==
    (call.op \in {"get_request_cmds", "set_request_cmds", "set_user_passwd"} /\ sent # <<>>) =>
        /\ Len(sent) >= HeaderLen
        /\ unpack_I(Take(sent, HeaderLen)) = Len(sent) - HeaderLen
        /\ decode(Drop(sent, HeaderLen)) = [ok |-> TRUE, s |-> req_info]

\* C3 happens: a payload built from a parameter outside ASCII was sent
C3_Witness_NonAsciiParam ==
    /\ call.op = "set_request_cmds" /\ sent # <<>>
    /\ call.param = JStr(<<8364, 34>>)
    /\ Len(sent) > HeaderLen + Len(json_dumps(call.param))

----------------------------------------------------------------------------
(* Properties of main(), under SpecMain *)

\* C8: every authenticated envelope (ts, token, account) that main sends was
\* built while the salt was not empty.
C8_NoAuthenticatedSendWithEmptySalt ==
    (call.op = "set_request_cmds" /\ HasKey(payload, K_token) /\ sent # <<>>) => salt # <<>>

====
